---- MODULE Spec2Model ----
(***************************************************************************)
(* A model of libgmultigrid's DomainConstraints<T> (the CRTP base that     *)
(* layers matrix/vector assembly on a concrete constraint family T) and of *)
(* the MultigridDomain coarsening interface.                               *)
(*                                                                         *)
(* Matrices are records [rows, cols, val] with val a function on           *)
(* (0..rows-1) \X (0..cols-1); indices are 0-based as in the code.  A      *)
(* sparse matrix is given by its dense contents (implicit zeros are 0).    *)
(* Vectors are sequences: entry i of the code (0-based) is v[i+1].         *)
(* Values are integers (the code uses double; every operation used here    *)
(* -- copy, negation, sum, absolute value, maximum -- is exact on them).   *)
(*                                                                         *)
(* One call of the interface is one action.  The buffer a call receives is *)
(* drawn from a small set of caller buffers; argIn is the buffer before    *)
(* the call, argOut the buffer after it, ret the returned value, outcome   *)
(* how the call ended:                                                     *)
(*   "ok"    the call returned;                                            *)
(*   "fault" an eigen_assert failed (build without NDEBUG): abort;         *)
(*   "ub"    the same access in a build with NDEBUG: undefined behaviour.  *)
(* After "fault" or "ub" the program makes no further call.                *)
(***************************************************************************)
EXTENDS Integers, Sequences, FiniteSets, TLC

VARIABLES rowCount, colCount, triplets,
          op, argIn, argOut, targetsArg, offsetArg, ret, outcome, chained,
          rows0, cols0, triplets0,
          chain

csVars == <<rowCount, colCount, triplets>>
callVars == <<op, argIn, argOut, targetsArg, offsetArg, ret, outcome, chained>>
vars == <<rowCount, colCount, triplets, op, argIn, argOut, targetsArg,
          offsetArg, ret, outcome, chained, rows0, cols0, triplets0, chain>>

\* ------------------------------------------------------------------ bounds
MaxRows == 2
MaxCols == 2
MaxTriplets == 2
MaxOffset == 2

\* Values a triplet may carry, and the fill values of the caller's buffers.
TripletValues == {1, 2}

\* ------------------------------------------------------------ constraint set
\* The concrete family T, seen through its five hooks.
NumConstraintRows == rowCount

NumExpectedCols == colCount

AddTriplets == triplets

\* SaddleNumRows as the product of the two counts.
SaddleNumRowsProduct == NumConstraintRows * NumExpectedCols

SaddleNumRows == NumConstraintRows + NumExpectedCols

InRange(t) == t.row < rowCount /\ t.col < colCount

AllInRange(ts) == \A k \in 1..Len(ts) : InRange(ts[k])

\* ------------------------------------------------------------------ matrices
Cells(r, c) == (0..(r - 1)) \X (0..(c - 1))

\* The r x c matrix of zeros.
ZeroMatrix(r, c) == [rows |-> r, cols |-> c, val |-> [p \in Cells(r, c) |-> 0]]

InBounds(M, i, j) == 0 <= i /\ i < M.rows /\ 0 <= j /\ j < M.cols

\* M(i, j) = v with (i, j) inside M.
Write(M, i, j, v) == [M EXCEPT !.val[<<i, j>>] = v]

\* The sum of the values of the triplets of ts at coordinate (i, j).
RECURSIVE SumAt(_, _, _)
SumAt(ts, i, j) ==
    IF ts = <<>> THEN 0
    ELSE (IF Head(ts).row = i /\ Head(ts).col = j THEN Head(ts).value ELSE 0)
         + SumAt(Tail(ts), i, j)

\* Eigen::SparseMatrix::resize: the shape becomes r x c, the contents are dropped.
Resize(B, r, c) == ZeroMatrix(r, c)

\* Eigen::SparseMatrix::setFromTriplets keeping only the last duplicate.
SetFromTripletsLastWins(B, ts) ==
    [B EXCEPT !.val = [p \in DOMAIN B.val |->
        LET hits == {k \in 1..Len(ts) : ts[k].row = p[1] /\ ts[k].col = p[2]}
        IN IF hits = {} THEN 0
           ELSE ts[CHOOSE k \in hits : \A m \in hits : m <= k].value]]

\* Eigen::SparseMatrix::setFromTriplets: the prior contents are destroyed and
\* duplicates at one coordinate are summed.
SetFromTriplets(B, ts) ==
    [B EXCEPT !.val = [p \in DOMAIN B.val |-> SumAt(ts, p[1], p[2])]]

\* FillConstraintMatrix without the resize: B keeps its shape.
FillConstraintMatrixNoResize(B) == SetFromTriplets(B, AddTriplets)

\* domain_constraints.h:57-65.  Result for in-range triplets.
FillConstraintMatrix(B) ==
    LET nRows == NumConstraintRows
        nCols == NumExpectedCols
    IN SetFromTriplets(Resize(B, nRows, nCols), AddTriplets)

\* ---------------------------------------------------------------- dense block
\* The body of the loop without the transposed write.
WriteTripletNoTranspose(A, t, offset) ==
    Write(A, offset + t.row, t.col, t.value)

\* The body of the loop with the kernel block cleared first.
WriteTripletClearKernel(A, t, offset) ==
    LET Z == [A EXCEPT !.val = [p \in DOMAIN A.val |->
                 IF p[1] < offset /\ p[2] < offset THEN 0 ELSE A.val[p]]]
    IN Write(Write(Z, offset + t.row, t.col, t.value),
             t.col, offset + t.row, t.value)

\* domain_constraints.h:78-80, both accesses inside A.
WriteTriplet(A, t, offset) ==
    Write(Write(A, offset + t.row, t.col, t.value),
          t.col, offset + t.row, t.value)

\* domain_constraints.h:76-81: the loop, up to the first access outside A.
\* [A: the matrix then, oob: whether such an access was met].
RECURSIVE DenseLoop(_, _, _)
DenseLoop(A, ts, offset) ==
    IF ts = <<>> THEN [A |-> A, oob |-> FALSE]
    ELSE IF ~InBounds(A, offset + Head(ts).row, Head(ts).col)
         THEN [A |-> A, oob |-> TRUE]
    ELSE IF ~InBounds(A, Head(ts).col, offset + Head(ts).row)
         THEN [A |-> Write(A, offset + Head(ts).row, Head(ts).col, Head(ts).value),
               oob |-> TRUE]
    ELSE DenseLoop(WriteTriplet(A, Head(ts), offset), Tail(ts), offset)

\* The loop with every access outside A dropped (one outcome of "ub").
RECURSIVE DenseLoopSkip(_, _, _)
DenseLoopSkip(A, ts, offset) ==
    IF ts = <<>> THEN A
    ELSE LET t == Head(ts)
             A1 == IF InBounds(A, offset + t.row, t.col)
                   THEN Write(A, offset + t.row, t.col, t.value) ELSE A
             A2 == IF InBounds(A1, t.col, offset + t.row)
                   THEN Write(A1, t.col, offset + t.row, t.value) ELSE A1
         IN DenseLoopSkip(A2, Tail(ts), offset)

\* FillDenseBlock taking the row count for the offset.
FillDenseBlockRowOffset(A) ==
    LET offset == NumConstraintRows
    IN DenseLoop(A, AddTriplets, offset)

\* domain_constraints.h:71-82.
FillDenseBlock(A) ==
    LET offset == NumExpectedCols
    IN DenseLoop(A, AddTriplets, offset)

\* ------------------------------------------------------------------- vectors
Zeros(n) == [i \in 1..n |-> 0]

Abs(x) == IF x < 0 THEN -x ELSE x

\* Eigen's lpNorm<Infinity>: the largest absolute value, 0 for an empty vector.
RECURSIVE InfNorm(_)
InfNorm(v) ==
    IF v = <<>> THEN 0
    ELSE LET m == InfNorm(Tail(v))
         IN IF Abs(Head(v)) > m THEN Abs(Head(v)) ELSE m

\* The concrete family modelled here is the linear one of the spec's end-to-end
\* scenario: row i constrains sum_j B[i][j] * x[j] to a target.  Position(j) is
\* the current value of unknown j, TargetValue(i) the target of row i.
Position(j) == j + 1

TargetValue(i) == 3 - 2 * i

\* The current value of the constraint function of row i.
RECURSIVE ConstraintValue(_, _)
ConstraintValue(ts, i) ==
    IF ts = <<>> THEN 0
    ELSE (IF Head(ts).row = i THEN Head(ts).value * Position(Head(ts).col) ELSE 0)
         + ConstraintValue(Tail(ts), i)

\* Hook T::SetTargetValues: writes the target of every constraint row.
SetTargetValues(t) ==
    [k \in 1..Len(t) |-> IF k <= NumConstraintRows THEN TargetValue(k - 1) ELSE t[k]]

\* Hook T::NegativeConstraintValues: b_constrs, one entry per constraint row,
\* the negated value of the constraint function relative to its target.
NegativeConstraintValues(t) ==
    [k \in 1..NumConstraintRows |-> t[k] - ConstraintValue(AddTriplets, k - 1)]

\* UpdateTargetValues without the resize of a mismatched vector.
UpdateTargetValuesNoResize(t) == SetTargetValues(t)

\* domain_constraints.h:87-93.
UpdateTargetValues(t) ==
    LET nConstrs == NumConstraintRows
        t1 == IF Len(t) # nConstrs THEN Zeros(nConstrs) ELSE t
    IN SetTargetValues(t1)

\* b.block(offset, 0, n, 1) lies inside b (Eigen's Block constructor asserts it).
BlockInBounds(b, offset, n) == 0 <= offset /\ offset + n <= Len(b)

\* b.block(offset, 0, n, 1) = seg, for a block inside b.
AssignBlock(b, offset, seg) ==
    [k \in 1..Len(b) |->
        IF offset < k /\ k <= offset + Len(seg) THEN seg[k - offset] ELSE b[k]]

\* FillConstraintValues returning the norm of the whole of b after the write.
FillConstraintValuesNormOfAll(b, t, offset) ==
    LET b_constrs == NegativeConstraintValues(t)
    IN [b |-> AssignBlock(b, offset, b_constrs),
        ret |-> InfNorm(AssignBlock(b, offset, b_constrs))]

\* domain_constraints.h:98-106.  [b: the vector after the call, ret: the value
\* returned], for a block inside b.
FillConstraintValues(b, t, offset) ==
    LET b_constrs == NegativeConstraintValues(t)
    IN [b |-> AssignBlock(b, offset, b_constrs), ret |-> InfNorm(b_constrs)]

\* -------------------------------------------------------------------- inputs
Triplet(r, c, v) == [row |-> r, col |-> c, value |-> v]

InRangeTriplets(r, c) ==
    {Triplet(i, j, v) : i \in 0..(r - 1), j \in 0..(c - 1), v \in TripletValues}

\* Triplets a defective family may emit: one row, or one column, too far.
OutOfRangeTriplets(r, c) == {Triplet(r, 0, 1), Triplet(0, c, 1)}

ListsUpTo(S, n) == UNION {[1..k -> S] : k \in 0..n}

\* What AddTriplets may emit: any list of in-range triplets, repeats of a
\* coordinate included, or such a list ended by one out-of-range triplet.
TripletLists(r, c) ==
    ListsUpTo(InRangeTriplets(r, c), MaxTriplets)
    \cup {Append(ts, t) : ts \in ListsUpTo(InRangeTriplets(r, c), MaxTriplets - 1),
                          t \in OutOfRangeTriplets(r, c)}

ConstMatrix(r, c, v) == [rows |-> r, cols |-> c, val |-> [p \in Cells(r, c) |-> v]]

\* n x n with pairwise different entries (not symmetric for n > 1).
DistinctMatrix(n) ==
    [rows |-> n, cols |-> n, val |-> [p \in Cells(n, n) |-> 10 + p[1] * n + p[2]]]

\* n x n symmetric, not constant.
SymmetricMatrix(n) ==
    [rows |-> n, cols |-> n, val |-> [p \in Cells(n, n) |-> 50 + p[1] + p[2]]]

\* The sparse buffers a caller passes: empty, of the right shape, of another.
SparseInputs ==
    {ZeroMatrix(0, 0), ConstMatrix(rowCount, colCount, 7),
     ConstMatrix(rowCount + 1, 1, 7)}

\* The dense buffers a caller passes: of the saddle size, one less, one more.
DenseSizes == {n \in {SaddleNumRows - 1, SaddleNumRows, SaddleNumRows + 1} : n >= 0}

DenseInputs ==
    UNION {{ZeroMatrix(n, n), DistinctMatrix(n), SymmetricMatrix(n)} : n \in DenseSizes}

\* The vectors a caller passes.
VectorInputs == {[k \in 1..n |-> 10 + k] : n \in 0..(MaxRows + MaxOffset)}

\* The target vectors a caller passes to FillConstraintValues: rowCount entries.
TargetArgs == {Zeros(rowCount), SetTargetValues(Zeros(rowCount))}

\* ------------------------------------------------------------- state machine
Ops == {"none", "FillConstraintMatrix", "FillDenseBlock", "UpdateTargetValues",
        "FillConstraintValues"}

NoCall ==
    /\ op = "none" /\ argIn = <<>> /\ argOut = <<>> /\ targetsArg = <<>>
    /\ offsetArg = 0 /\ ret = "none" /\ outcome = "ok" /\ chained = FALSE

\* A constraint set has been constructed; no call has been made.
Init ==
    /\ rowCount \in 0..MaxRows
    /\ colCount \in 0..MaxCols
    /\ triplets \in TripletLists(rowCount, colCount)
    /\ rows0 = rowCount
    /\ cols0 = colCount
    /\ triplets0 = triplets
    /\ NoCall
    /\ chain = <<>>

\* The object is not written by a call (the methods are const, or reach T only
\* through a const reference).
Frame == UNCHANGED <<rowCount, colCount, triplets, rows0, cols0, triplets0, chain>>

\* domain_constraints.h:57-65.  resize happens before setFromTriplets, whose
\* handling of an out-of-range triplet is an assertion or undefined.
CallFillConstraintMatrix ==
    /\ op = "none"
    /\ \E B0 \in SparseInputs :
        /\ op' = "FillConstraintMatrix"
        /\ argIn' = B0
        /\ IF AllInRange(AddTriplets)
           THEN /\ outcome' = "ok"
                /\ argOut' = FillConstraintMatrix(B0)
           ELSE /\ outcome' \in {"fault", "ub"}
                /\ argOut' \in {Resize(B0, NumConstraintRows, NumExpectedCols),
                                FillConstraintMatrix(B0)}
    /\ targetsArg' = <<>> /\ offsetArg' = 0 /\ ret' = "none" /\ chained' = FALSE
    /\ Frame

\* domain_constraints.h:71-82.  An access outside A is an assertion or undefined.
CallFillDenseBlock ==
    /\ op = "none"
    /\ \E A0 \in DenseInputs :
        LET res == FillDenseBlock(A0)
        IN /\ op' = "FillDenseBlock"
           /\ argIn' = A0
           /\ IF ~res.oob
              THEN /\ outcome' = "ok"
                   /\ argOut' = res.A
              ELSE /\ outcome' \in {"fault", "ub"}
                   /\ argOut' \in {res.A, DenseLoopSkip(A0, AddTriplets, NumExpectedCols)}
    /\ targetsArg' = <<>> /\ offsetArg' = 0 /\ ret' = "none" /\ chained' = FALSE
    /\ Frame

\* domain_constraints.h:87-93, on a caller's vector or (chained) on the vector
\* the previous UpdateTargetValues call left.
CallUpdateTargetValues ==
    /\ outcome = "ok"
    /\ \E c \in BOOLEAN :
        /\ op = (IF c THEN "UpdateTargetValues" ELSE "none")
        /\ \E t0 \in (IF c THEN {argOut} ELSE VectorInputs) :
            /\ argIn' = t0
            /\ argOut' = UpdateTargetValues(t0)
        /\ chained' = c
    /\ op' = "UpdateTargetValues"
    /\ outcome' = "ok"
    /\ targetsArg' = <<>> /\ offsetArg' = 0 /\ ret' = "none"
    /\ Frame

\* domain_constraints.h:98-106.  A block outside b is an assertion or undefined.
CallFillConstraintValues ==
    /\ op = "none"
    /\ \E b0 \in VectorInputs, t \in TargetArgs, offset \in 0..MaxOffset :
        LET res == FillConstraintValues(b0, t, offset)
        IN /\ op' = "FillConstraintValues"
           /\ argIn' = b0
           /\ targetsArg' = t
           /\ offsetArg' = offset
           /\ IF BlockInBounds(b0, offset, NumConstraintRows)
              THEN /\ outcome' = "ok"
                   /\ argOut' = res.b
                   /\ ret' = res.ret
              ELSE \/ outcome' = "fault" /\ argOut' = b0 /\ ret' = "none"
                   \/ outcome' = "ub" /\ argOut' = res.b /\ ret' = res.ret
    /\ chained' = FALSE
    /\ Frame

\* The caller is done with the buffer and the result of a call that returned;
\* the next call gets a buffer of its own.
DropBuffers ==
    /\ op # "none"
    /\ outcome = "ok"
    /\ op' = "none" /\ argIn' = <<>> /\ argOut' = <<>> /\ targetsArg' = <<>>
    /\ offsetArg' = 0 /\ ret' = "none" /\ outcome' = "ok" /\ chained' = FALSE
    /\ Frame

Next ==
    \/ CallFillConstraintMatrix
    \/ CallFillDenseBlock
    \/ CallUpdateTargetValues
    \/ CallFillConstraintValues
    \/ DropBuffers

Spec == Init /\ [][Next]_vars

\* ------------------------------------------------------- multigrid hierarchy
\* multigrid_domain.h declares the interface only; a level is modelled by the
\* two sizes it reports, and Coarsen by what the interface's contract says of it.
MaxVertices == 4
MaxLevels == 3

Domain(v, k) == [vertices |-> v, constraintRows |-> k]

NumVertices(D) == D.vertices

NumRows(D) == D.vertices + D.constraintRows

\* A prolongation operator between a coarse and a fine level.
ProlongOp(coarse, fine) == [coarse |-> coarse, fine |-> fine]

\* Coarsen building a level as large as the operator's fine side and coarse side together.
CoarsenRefining(D, prolongOp, k) == Domain(prolongOp.fine + prolongOp.coarse, k)

\* Coarsen: the coarser level has as many vertices as the operator's coarse side.
Coarsen(D, prolongOp, k) == Domain(prolongOp.coarse, k)

InitDomain ==
    /\ rowCount = 0 /\ colCount = 0 /\ triplets = <<>>
    /\ rows0 = 0 /\ cols0 = 0 /\ triplets0 = <<>>
    /\ NoCall
    /\ \E v \in 1..MaxVertices, k \in 0..MaxRows : chain = <<Domain(v, k)>>

\* The driver coarsens the coarsest level it holds; the operator maps a
\* non-empty coarse level into this one.
CallCoarsen ==
    /\ Len(chain) < MaxLevels
    /\ \E coarse \in 1..NumVertices(chain[Len(chain)]), k \in 0..MaxRows :
        chain' = Append(chain, Coarsen(chain[Len(chain)],
                     ProlongOp(coarse, NumVertices(chain[Len(chain)])), k))
    /\ UNCHANGED <<rowCount, colCount, triplets, rows0, cols0, triplets0>>
    /\ UNCHANGED callVars

NextDomain == CallCoarsen

SpecDomain == InitDomain /\ [][NextDomain]_vars

\* -------------------------------------------------------------------- claims
\* Helpers of the claims' formulas, stated apart from the model's operators.
RightSize(A) == A.rows = rowCount + colCount /\ A.cols = rowCount + colCount

\* The indices of the emitted triplets at coordinate (i, j).
HitsAt(i, j) == {k \in 1..Len(triplets) : triplets[k].row = i /\ triplets[k].col = j}

RECURSIVE SumOfValues(_)
SumOfValues(K) ==
    IF K = {} THEN 0
    ELSE LET k == CHOOSE x \in K : TRUE
         IN triplets[k].value + SumOfValues(K \ {k})

\* The two entries of the saddle matrix the k-th emitted triplet is written to.
Positions(k) ==
    {<<colCount + triplets[k].row, triplets[k].col>>,
     <<triplets[k].col, colCount + triplets[k].row>>}

Addressed(p) == \E k \in 1..Len(triplets) : p \in Positions(k)

\* Some coordinate is emitted twice, with two different values.
RepeatsWithDifferentValues ==
    \E k, m \in 1..Len(triplets) :
        /\ k < m
        /\ triplets[k].row = triplets[m].row
        /\ triplets[k].col = triplets[m].col
        /\ triplets[k].value # triplets[m].value

IsSymmetric(A) == \A p \in DOMAIN A.val : A.val[p] = A.val[<<p[2], p[1]>>]

\* C1: after FillConstraintMatrix(B) with in-range triplets, B has shape exactly
\* rowCount x colCount whatever it held before, and every entry is the sum of the
\* values of the emitted triplets at its coordinate (0 when there is none).
C1_FreshSummedFill ==
    (op = "FillConstraintMatrix" /\ AllInRange(triplets)) =>
        /\ outcome = "ok"
        /\ argOut.rows = rowCount
        /\ argOut.cols = colCount
        /\ DOMAIN argOut.val = Cells(rowCount, colCount)
        /\ \A p \in Cells(rowCount, colCount) :
               argOut.val[p] = SumOfValues(HitsAt(p[1], p[2]))

\* C1 witness: a non-empty buffer of another shape was filled from a list that
\* repeats a coordinate.
C1_Witness ==
    /\ op = "FillConstraintMatrix"
    /\ outcome = "ok"
    /\ argIn.rows # rowCount
    /\ argIn.rows > 0
    /\ RepeatsWithDifferentValues

\* C2 as stated: after FillDenseBlock(A) on a matrix of the saddle size, every
\* emitted triplet (row, col, val) has A[c+row][col] = val and A[col][c+row] = val.
C2_EveryTripletStored ==
    (op = "FillDenseBlock" /\ outcome = "ok" /\ RightSize(argIn)) =>
        \A k \in 1..Len(triplets) :
            \A p \in Positions(k) :
                p \in DOMAIN argOut.val /\ argOut.val[p] = triplets[k].value

\* C2 amended: the same for every emitted triplet that no later emitted triplet
\* overwrites (for in-range triplets: no later triplet at the same (row, col)).
C2_LastTripletStored ==
    (op = "FillDenseBlock" /\ outcome = "ok" /\ RightSize(argIn)) =>
        \A k \in 1..Len(triplets) :
            (\A m \in (k + 1)..Len(triplets) : Positions(m) \cap Positions(k) = {})
                => \A p \in Positions(k) :
                       p \in DOMAIN argOut.val /\ argOut.val[p] = triplets[k].value

\* C2 witness: a dense fill from a list that repeats a coordinate with another value.
C2_Witness ==
    /\ op = "FillDenseBlock"
    /\ outcome = "ok"
    /\ RightSize(argIn)
    /\ AllInRange(triplets)
    /\ RepeatsWithDifferentValues

\* C3: after FillDenseBlock on the zero matrix of the saddle size with in-range
\* triplets, the lower-left quadrant is the block B that FillConstraintMatrix
\* builds, the upper-right quadrant is its transpose, the lower-right is zero.
C3_DenseAgreesWithSparse ==
    (/\ op = "FillDenseBlock"
     /\ AllInRange(triplets)
     /\ argIn = ZeroMatrix(rowCount + colCount, rowCount + colCount)) =>
        LET B == FillConstraintMatrix(ZeroMatrix(0, 0))
        IN /\ outcome = "ok"
           /\ \A i \in 0..(rowCount - 1), j \in 0..(colCount - 1) :
                /\ argOut.val[<<colCount + i, j>>] = B.val[<<i, j>>]
                /\ argOut.val[<<j, colCount + i>>] = B.val[<<i, j>>]
           /\ \A i, j \in 0..(rowCount - 1) :
                argOut.val[<<colCount + i, colCount + j>>] = 0

\* C4: FillConstraintValues with 0 <= offset and offset + rowCount <= length(b)
\* returns, writes exactly b[offset .. offset+rowCount-1] with the family's
\* negated constraint values, keeps the length and every other entry of b, and
\* returns the largest absolute value of the written entries.
C4_SegmentAndNorm ==
    (/\ op = "FillConstraintValues"
     /\ 0 <= offsetArg
     /\ offsetArg + rowCount <= Len(argIn)) =>
        LET seg == (offsetArg + 1)..(offsetArg + rowCount)
        IN /\ outcome = "ok"
           /\ Len(argOut) = Len(argIn)
           /\ \A k \in 1..Len(argIn) :
                IF k \in seg
                THEN argOut[k] = NegativeConstraintValues(targetsArg)[k - offsetArg]
                ELSE argOut[k] = argIn[k]
           /\ \A k \in seg : argOut[k] <= ret /\ -argOut[k] <= ret
           /\ IF seg = {} THEN ret = 0
              ELSE \E k \in seg : ret = argOut[k] \/ ret = -argOut[k]

\* C4 witness: a segment strictly inside b, with entries of both signs.
C4_Witness ==
    /\ op = "FillConstraintValues"
    /\ outcome = "ok"
    /\ offsetArg > 0
    /\ offsetArg + rowCount < Len(argIn)
    /\ \E k, m \in 1..Len(argOut) :
        /\ k > offsetArg /\ k <= offsetArg + rowCount /\ argOut[k] < 0
        /\ m > offsetArg /\ m <= offsetArg + rowCount /\ argOut[m] > 0

\* C5: UpdateTargetValues leaves exactly rowCount entries for every prior
\* length (a vector of another length is zero-filled, then populated), and a
\* second call right after the first leaves the vector as the first left it.
C5_ResizedAndIdempotent ==
    (op = "UpdateTargetValues") =>
        /\ outcome = "ok"
        /\ Len(argOut) = rowCount
        /\ (Len(argIn) # rowCount => argOut = SetTargetValues(Zeros(rowCount)))
        /\ (chained => argOut = argIn)

\* C5 witness: the second of two calls in a row, on a non-empty target vector.
C5_Witness ==
    /\ op = "UpdateTargetValues"
    /\ chained
    /\ rowCount > 1
    /\ argOut # Zeros(rowCount)

\* C6: FillDenseBlock on a matrix of the saddle size with in-range triplets keeps
\* the size of A and every entry no triplet addresses: the kernel block, the
\* lower-right block and the unaddressed entries of the constraint quadrants.
C6_DenseFrame ==
    (op = "FillDenseBlock" /\ RightSize(argIn) /\ AllInRange(triplets)) =>
        /\ outcome = "ok"
        /\ argOut.rows = argIn.rows
        /\ argOut.cols = argIn.cols
        /\ DOMAIN argOut.val = DOMAIN argIn.val
        /\ \A p \in DOMAIN argIn.val :
               ~Addressed(p) => argOut.val[p] = argIn.val[p]
        /\ \A p \in DOMAIN argIn.val :
               Addressed(p) => /\ (p[1] >= colCount /\ p[2] < colCount)
                                  \/ (p[1] < colCount /\ p[2] >= colCount)

\* C6 witness: a fill of a matrix with pairwise different entries that has a
\* kernel block, a lower-right block and an unaddressed constraint entry.
C6_Witness ==
    /\ op = "FillDenseBlock"
    /\ outcome = "ok"
    /\ RightSize(argIn)
    /\ AllInRange(triplets)
    /\ argIn = DistinctMatrix(rowCount + colCount)
    /\ triplets # <<>>
    /\ argOut # argIn
    /\ \E i \in 0..(rowCount - 1), j \in 0..(colCount - 1) :
           ~Addressed(<<colCount + i, j>>)

\* C7: through every sequence of calls NumConstraintRows() and NumExpectedCols()
\* return what they returned at construction, both non-negative, SaddleNumRows()
\* is their sum, and the emitted triplets stay the same.
C7_CountsFixed ==
    (outcome # "ub") =>
        /\ NumConstraintRows = rows0
        /\ NumExpectedCols = cols0
        /\ NumConstraintRows >= 0
        /\ NumExpectedCols >= 0
        /\ SaddleNumRows = rows0 + cols0
        /\ AddTriplets = triplets0

\* C7 witness: a call made right after another call, on a set with rows and columns.
C7_Witness ==
    /\ chained
    /\ outcome = "ok"
    /\ rowCount > 1
    /\ colCount > 1
    /\ triplets # <<>>

\* A call that breaks the dimension contract.
ContractViolation ==
    \/ op = "FillDenseBlock" /\ ~RightSize(argIn)
    \/ op \in {"FillDenseBlock", "FillConstraintMatrix"} /\ ~AllInRange(triplets)
    \/ op = "FillConstraintValues" /\ offsetArg + rowCount > Len(argIn)

\* C8: a call that breaks the dimension contract ends in a fault and leaves the
\* caller's buffer as it was.
C8_ViolationFaults ==
    ContractViolation => (outcome = "fault" /\ argOut = argIn)

\* C9: along a coarsening chain the vertex count never increases, every level
\* has NumRows() >= NumVertices(), and Coarsen leaves the levels already there
\* as they were.
C9_CoarseningMonotone ==
    /\ [](/\ \A i \in 1..Len(chain) : NumRows(chain[i]) >= NumVertices(chain[i])
          /\ \A i \in 1..(Len(chain) - 1) :
                 NumVertices(chain[i + 1]) <= NumVertices(chain[i]))
    /\ [][/\ Len(chain') >= Len(chain)
          /\ \A i \in 1..Len(chain) :
                 /\ NumVertices(chain'[i]) = NumVertices(chain[i])
                 /\ NumRows(chain'[i]) = NumRows(chain[i])]_vars

\* C9 witness: a chain of full depth whose vertex count went down.
C9_Witness ==
    /\ Len(chain) = MaxLevels
    /\ NumVertices(chain[Len(chain)]) < NumVertices(chain[1])
    /\ NumRows(chain[Len(chain)]) > NumVertices(chain[Len(chain)])

\* C10: FillDenseBlock on a symmetric matrix of the saddle size with in-range
\* triplets leaves it symmetric; where a coordinate repeats, both mirrored
\* entries hold the value of the last triplet emitted at it.
C10_SymmetryKept ==
    (/\ op = "FillDenseBlock"
     /\ RightSize(argIn)
     /\ AllInRange(triplets)
     /\ IsSymmetric(argIn)) =>
        /\ outcome = "ok"
        /\ IsSymmetric(argOut)
        /\ \A i \in 0..(rowCount - 1), j \in 0..(colCount - 1) :
               HitsAt(i, j) # {} =>
                   LET last == CHOOSE k \in HitsAt(i, j) : \A m \in HitsAt(i, j) : m <= k
                   IN /\ argOut.val[<<colCount + i, j>>] = triplets[last].value
                      /\ argOut.val[<<j, colCount + i>>] = triplets[last].value

\* C10 witness: a symmetric non-zero matrix filled from a list that repeats a
\* coordinate with another value.
C10_Witness ==
    /\ op = "FillDenseBlock"
    /\ outcome = "ok"
    /\ argIn = SymmetricMatrix(rowCount + colCount)
    /\ AllInRange(triplets)
    /\ RepeatsWithDifferentValues

====
